---- MODULE Spec2Model ----
(***************************************************************************)
(* Invoice Analyzer Pro: the numeric cleaner and column detection of       *)
(* app.py, and the extraction / normalisation / calculation pipeline of    *)
(* invoice_analyzer_ready.py.                                              *)
(*                                                                         *)
(* Text is a sequence of one-character strings.  A cell of a table is a    *)
(* record [na, s]: na marks a missing value (None, NaN, pd.NA), s is the   *)
(* text of a present one.  A number is a record [kind, n, d]: kind "num"   *)
(* is the rational n/d in lowest terms with d > 0, kind "nan" is NaN and   *)
(* kind "raise" is an exception that escaped the expression.               *)
(***************************************************************************)
EXTENDS Integers, Sequences, FiniteSets, TLC

VARIABLES
  \* the numeric cleaner on its own
  cpc, cx, cs, cres,
  \* the discount widget (both scripts)
  discount_percent,
  \* app.py
  apc, df_list, raw, item_col, price_col, qty_col, work, warned,
  \* invoice_analyzer_ready.py
  pc, tabula_out, tables, plumber_out, attempts, candidate, col_map, source,
  df_final, enriched

cleanerVars == <<cpc, cx, cs, cres>>
appVars == <<apc, df_list, raw, item_col, price_col, qty_col, work, warned>>
readyVars ==
  <<pc, tabula_out, tables, plumber_out, attempts, candidate, col_map, source,
    df_final, enriched>>
vars == <<cleanerVars, discount_percent, appVars, readyVars>>

(***************************************************************************)
(* Bounds of the model.                                                    *)
(***************************************************************************)
\* longest raw string enumerated character by character for the cleaner
MaxRawLen == 3
\* most data rows of a table pdfplumber extracts for app.py
MaxRowsApp == 2
\* most rows of a tabula table drawn from the short row pool
MaxShortRows == 2
\* most rows of a tabula table drawn from the long row pool
MaxLongRows == 5
\* most lines of text pdfplumber extracts
MaxLines == 3

(***************************************************************************)
(* Characters and text.                                                    *)
(***************************************************************************)
DigitChars == {"0", "1", "2", "3", "4", "5", "6", "7", "8", "9"}

DigitVal(c) ==
  CASE c = "0" -> 0 [] c = "1" -> 1 [] c = "2" -> 2 [] c = "3" -> 3
    [] c = "4" -> 4 [] c = "5" -> 5 [] c = "6" -> 6 [] c = "7" -> 7
    [] c = "8" -> 8 [] c = "9" -> 9

RECURSIVE DigitsVal(_)
DigitsVal(ds) ==
  IF ds = <<>> THEN 0
  ELSE 10 * DigitsVal(SubSeq(ds, 1, Len(ds) - 1)) + DigitVal(ds[Len(ds)])

RECURSIVE Pow10(_)
Pow10(k) == IF k = 0 THEN 1 ELSE 10 * Pow10(k - 1)

AllIn(t, S) == \A i \in 1..Len(t) : t[i] \in S

CountOf(t, c) == Cardinality({i \in 1..Len(t) : t[i] = c})

\* index of the first occurrence of c in t, 0 when there is none
FirstIndex(t, c) ==
  IF \E i \in 1..Len(t) : t[i] = c
  THEN CHOOSE i \in 1..Len(t) : t[i] = c /\ \A j \in 1..(i - 1) : t[j] # c
  ELSE 0

\* A cell: present text, or a missing value with the text str() gives it.
Str(t) == [na |-> FALSE, s |-> t]
None == [na |-> TRUE, s |-> <<"N", "o", "n", "e">>]
PdNA == [na |-> TRUE, s |-> <<"<", "N", "A", ">">>]
NaNCell == [na |-> TRUE, s |-> <<"n", "a", "n">>]

\* Series.astype(str) on one cell
astype_str(x) == x.s

Whitespace == {" "}

RECURSIVE lstrip(_)
lstrip(t) == IF t # <<>> /\ t[1] \in Whitespace THEN lstrip(Tail(t)) ELSE t

RECURSIVE rstrip(_)
rstrip(t) ==
  IF t # <<>> /\ t[Len(t)] \in Whitespace THEN rstrip(SubSeq(t, 1, Len(t) - 1)) ELSE t

\* str.strip()
strip(t) == rstrip(lstrip(t))

(***************************************************************************)
(* Numbers.                                                                *)
(***************************************************************************)
Abs(a) == IF a < 0 THEN -a ELSE a

RECURSIVE GCD(_, _)
GCD(a, b) == IF b = 0 THEN a ELSE GCD(b, a % b)

Rat(n, d) ==
  LET g == GCD(Abs(n), Abs(d))
      sg == IF d < 0 THEN -1 ELSE 1
  IN [kind |-> "num", n |-> (sg * n) \div g, d |-> (sg * d) \div g]

NaN == [kind |-> "nan", n |-> 0, d |-> 1]
Raised == [kind |-> "raise", n |-> 0, d |-> 1]
Zero == Rat(0, 1)

IsNum(v) == v.kind = "num"
\* pd.isna / np.isnan
IsNaN(v) == v.kind = "nan"

RAdd(a, b) == Rat(a.n * b.d + b.n * a.d, a.d * b.d)
RSub(a, b) == Rat(a.n * b.d - b.n * a.d, a.d * b.d)
RMul(a, b) == Rat(a.n * b.n, a.d * b.d)
\* a / b for b # 0
RDiv(a, b) == Rat(a.n * b.d, a.d * b.n)
RLt(a, b) == a.n * b.d < b.n * a.d
RLe(a, b) == a.n * b.d <= b.n * a.d

RECURSIVE RSum(_)
RSum(vs) == IF vs = <<>> THEN Zero ELSE RAdd(vs[1], RSum(Tail(vs)))

\* int(v): truncation toward zero
Trunc(v) == IF v.n >= 0 THEN v.n \div v.d ELSE -((-v.n) \div v.d)

\* the k-th smallest of a non-empty sequence of numbers
KthSmallest(vs, k) ==
  LET v == CHOOSE w \in {vs[i] : i \in 1..Len(vs)} :
             /\ Cardinality({i \in 1..Len(vs) : RLt(vs[i], w)}) < k
             /\ Cardinality({i \in 1..Len(vs) : RLe(vs[i], w)}) >= k
  IN v

\* np.median / np.nanmedian of a non-empty sequence of numbers
Median(vs) ==
  LET n == Len(vs)
  IN IF n % 2 = 1 THEN KthSmallest(vs, (n + 1) \div 2)
     ELSE RDiv(RAdd(KthSmallest(vs, n \div 2), KthSmallest(vs, n \div 2 + 1)), Rat(2, 1))

Mean(vs) == RDiv(RSum(vs), Rat(Len(vs), 1))

\* the square of np.std / np.nanstd (population standard deviation)
Variance(vs) ==
  LET m == Mean(vs)
      sq == [i \in 1..Len(vs) |-> RMul(RSub(vs[i], m), RSub(vs[i], m))]
  IN Mean(sq)

\* round(v, 2).  A value exactly half way between two hundredths is rounded
\* by the binary representation the floating-point computation happened to
\* produce: either neighbour is possible.
Round2Set(v) ==
  LET num == 100 * v.n
      fl == num \div v.d
      rem == num % v.d
  IN IF 2 * rem < v.d THEN {Rat(fl, 100)}
     ELSE IF 2 * rem > v.d THEN {Rat(fl + 1, 100)}
     ELSE {Rat(fl, 100), Rat(fl + 1, 100)}

(***************************************************************************)
(* Python's float(str) on text without exponent, underscore, inf or nan:   *)
(* an optional sign, then digits with at most one decimal point and at     *)
(* least one digit.  Anything else raises ValueError.                      *)
(***************************************************************************)
IsFloatLiteral(t) ==
  LET signed == Len(t) > 0 /\ t[1] \in {"-", "+"}
      body == IF signed THEN SubSeq(t, 2, Len(t)) ELSE t
  IN /\ AllIn(body, DigitChars \cup {"."})
     /\ CountOf(body, ".") <= 1
     /\ \E i \in 1..Len(body) : body[i] \in DigitChars

PyFloat(t) ==
  IF ~IsFloatLiteral(t) THEN Raised
  ELSE
    LET neg == t[1] = "-"
        body == IF t[1] \in {"-", "+"} THEN SubSeq(t, 2, Len(t)) ELSE t
        dot == FirstIndex(body, ".")
        ip == IF dot = 0 THEN body ELSE SubSeq(body, 1, dot - 1)
        fp == IF dot = 0 THEN <<>> ELSE SubSeq(body, dot + 1, Len(body))
        mag == DigitsVal(ip) * Pow10(Len(fp)) + DigitsVal(fp)
    IN Rat(IF neg THEN -mag ELSE mag, Pow10(Len(fp)))

(***************************************************************************)
(* app.py: clean_number_raw, to_float_safe.                                *)
(***************************************************************************)
\* re.sub(r"[^\d.\-]", "", s)
KeepNumberChars(t) == SelectSeq(t, LAMBDA c : c \in DigitChars \cup {".", "-"})

clean_number_raw(x) ==
  IF x.na THEN <<>>
  ELSE
    LET t == KeepNumberChars(x.s)
        dot == FirstIndex(t, ".")
    IN IF CountOf(t, ".") > 1
       THEN SubSeq(t, 1, dot - 1) \o <<".">>
            \o SelectSeq(SubSeq(t, dot + 1, Len(t)), LAMBDA c : c # ".")
       ELSE t

\* the try block of to_float_safe: what it returns, or the exception it raises
ToFloatBody(x) ==
  LET t == clean_number_raw(x)
  IN IF t = <<>> THEN NaN ELSE PyFloat(t)

ToFloatNoExcept(x) == ToFloatBody(x)

to_float_safe(x) ==
  LET v == ToFloatBody(x)
  IN IF v.kind = "raise" THEN NaN ELSE v

(***************************************************************************)
(* Tables.  A table is [cols, rows]: the header texts and the rows, each a *)
(* sequence of one cell per column.  A column is named by its position;    *)
(* 0 is Python's None.  Headers are pairwise distinct.                     *)
(***************************************************************************)
EmptyFrame == [cols |-> <<>>, rows |-> <<>>]
NCols(df) == Len(df.cols)
NRows(df) == Len(df.rows)
Column(df, j) == [i \in 1..NRows(df) |-> df.rows[i][j]]

\* the elements of sq at the positions in S, in order
SubByIndex(sq, S) ==
  LET F[k \in 0..Len(sq)] ==
        IF k = 0 THEN <<>>
        ELSE IF k \in S THEN Append(F[k - 1], sq[k]) ELSE F[k - 1]
  IN F[Len(sq)]

\* the set of sequences taking their i-th element from the i-th set
RECURSIVE SeqProduct(_)
SeqProduct(ss) ==
  IF ss = <<>> THEN {<<>>}
  ELSE {<<h>> \o t : h \in ss[1], t \in SeqProduct(Tail(ss))}

\* the truth value of a column name: None and "" are false
Truthy(df, c) == c # 0 /\ df.cols[c] # <<>>

(***************************************************************************)
(* The idle values of each script's variables while another one runs.      *)
(***************************************************************************)
CleanerIdle ==
  /\ cpc = "idle"
  /\ cx = None
  /\ cs = <<>>
  /\ cres = NaN

NoOutcome == [kind |-> "none", frames |-> <<>>]
NoText == [kind |-> "none", lines |-> <<>>]

ReadyIdle ==
  /\ pc = "idle"
  /\ tabula_out = NoOutcome
  /\ tables = <<>>
  /\ plumber_out = NoText
  /\ attempts = <<>>
  /\ candidate = EmptyFrame
  /\ col_map = <<>>
  /\ source = "none"
  /\ df_final = <<>>
  /\ enriched = <<>>

AppIdle ==
  /\ apc = "idle"
  /\ df_list = <<>>
  /\ raw = EmptyFrame
  /\ item_col = 0
  /\ price_col = 0
  /\ qty_col = 0
  /\ work = <<>>
  /\ warned = FALSE

(***************************************************************************)
(* The numeric cleaner on its own: a raw value is cleaned and converted.   *)
(***************************************************************************)
CleanerAlphabet == {"1", "0", ".", "-", ",", "R"}

RECURSIVE TextsUpTo(_, _)
TextsUpTo(A, k) ==
  IF k = 0 THEN {<<>>}
  ELSE LET shorter == TextsUpTo(A, k - 1)
       IN shorter \cup {Append(t, c) : t \in shorter, c \in A}

\* a currency symbol or code written before the amount
CurrencySymbols == {<<>>, <<"$">>, <<"R", "s", ".">>, <<"R", "s", ".", " ">>,
                    <<"R", "s", " ">>, <<"P", "K", "R", " ">>}

\* an amount: its integer digits and its fraction digits
Amounts ==
  {[int |-> i, frac |-> f] :
     i \in {<<"5">>, <<"1", "2", "3", "4">>, <<"1", "2", "0", "0", "0">>},
     f \in {<<>>, <<"5">>, <<"5", "0">>}}

\* the amount as printed, with a thousands separator
Render(a) ==
  LET n == Len(a.int)
      grouped == IF n > 3
                 THEN SubSeq(a.int, 1, n - 3) \o <<",">> \o SubSeq(a.int, n - 2, n)
                 ELSE a.int
  IN IF a.frac = <<>> THEN grouped ELSE grouped \o <<".">> \o a.frac

AmountValue(a) ==
  Rat(DigitsVal(a.int) * Pow10(Len(a.frac)) + DigitsVal(a.frac), Pow10(Len(a.frac)))

RawValues ==
  {None, PdNA} \cup {Str(t) : t \in TextsUpTo(CleanerAlphabet, MaxRawLen)}
       \cup {Str(p \o Render(a)) : p \in CurrencySymbols, a \in Amounts}

CleanerInit ==
  /\ cpc = "start"
  /\ cx \in RawValues
  /\ cs = <<>>
  /\ cres = NaN
  /\ discount_percent = Zero
  /\ AppIdle
  /\ ReadyIdle

CallClean ==
  /\ cpc = "start"
  /\ cs' = clean_number_raw(cx)
  /\ cpc' = "cleaned"
  /\ UNCHANGED <<cx, cres, discount_percent, appVars, readyVars>>

CallToFloat ==
  /\ cpc = "cleaned"
  /\ cres' = to_float_safe(cx)
  /\ cpc' = "done"
  /\ UNCHANGED <<cx, cs, discount_percent, appVars, readyVars>>

CleanerNext == CallClean \/ CallToFloat

SpecCleaner == CleanerInit /\ [][CleanerNext]_vars

(***************************************************************************)
(* app.py: column statistics and the three column choices.                 *)
(***************************************************************************)
column_numeric_stats(series) ==
  LET vals == [i \in 1..Len(series) |-> to_float_safe(series[i])]
      nums == SelectSeq(vals, IsNum)
      num_non_na == Len(nums)
      total == Len(series)
  IN [prop_numeric |-> IF total > 0 THEN Rat(num_non_na, total) ELSE Zero,
      median |-> IF num_non_na > 0 THEN Median(nums) ELSE NaN,
      \* the square of std
      std2 |-> IF num_non_na > 0 THEN Variance(nums) ELSE NaN,
      vals |-> vals]

\* df[col].astype(str).fillna(""): every cell is text by now
ItemSeries(df, j) == [i \in 1..NRows(df) |-> Str(astype_str(df.rows[i][j]))]

\* (1 - prop_num) * 0.6 + (avg_len / 100) * 0.4
ItemScore(series) ==
  LET prop_num == column_numeric_stats(series).prop_numeric
      avg_len == Mean([i \in 1..Len(series) |-> Rat(Len(series[i].s), 1)])
  IN RAdd(RMul(RSub(Rat(1, 1), prop_num), Rat(6, 10)),
          RMul(RDiv(avg_len, Rat(100, 1)), Rat(4, 10)))

\* the loop of choose_item_column from column j on
RECURSIVE ItemLoop(_, _, _, _)
ItemLoop(df, j, best_col, best_score) ==
  IF j > NCols(df) THEN [col |-> best_col, score |-> best_score]
  ELSE LET score == ItemScore(ItemSeries(df, j))
       IN IF RLt(best_score, score)
          THEN ItemLoop(df, j + 1, j, score)
          ELSE ItemLoop(df, j + 1, best_col, best_score)

choose_item_column(df) == ItemLoop(df, 1, 0, Rat(-999, 1))

PriceAcceptsTies(st, best_prop) ==
  /\ RLe(best_prop, st.prop_numeric)
  /\ ~IsNaN(st.median)
  /\ RLt(Zero, st.median)

\* prop_num > best_prop and (not np.isnan(median)) and median > 0
PriceAccepts(st, best_prop) ==
  /\ RLt(best_prop, st.prop_numeric)
  /\ ~IsNaN(st.median)
  /\ RLt(Zero, st.median)

\* the loop of choose_price_column from column j on
RECURSIVE PriceLoop(_, _, _, _)
PriceLoop(df, j, best_col, best_prop) ==
  IF j > NCols(df) THEN [col |-> best_col, prop |-> best_prop]
  ELSE LET st == column_numeric_stats(Column(df, j))
       IN IF PriceAccepts(st, best_prop)
          THEN PriceLoop(df, j + 1, j, st.prop_numeric)
          ELSE PriceLoop(df, j + 1, best_col, best_prop)

choose_price_column(df) == PriceLoop(df, 1, 0, Rat(-1, 1))

\* std < bound, std given by its square
StdLess(std2, bound) == RLt(Zero, bound) /\ RLt(std2, RMul(bound, bound))

QtyScore(st) ==
  LET a == IF ~IsNaN(st.median) /\ RLt(st.median, Rat(10000, 1))
           THEN Rat(5, 10) ELSE Zero
      b == IF ~IsNaN(st.std2)
              /\ StdLess(st.std2, RAdd(RMul(st.median, Rat(2, 1)), Rat(1, 1)))
           THEN Rat(2, 10) ELSE Zero
  IN RAdd(RAdd(st.prop_numeric, a), b)

\* the loop of choose_qty_column from column j on
RECURSIVE QtyLoop(_, _, _, _, _)
QtyLoop(df, exclude_cols, j, best_col, best_score) ==
  IF j > NCols(df) THEN [col |-> best_col, score |-> best_score]
  ELSE IF j \in exclude_cols
  THEN QtyLoop(df, exclude_cols, j + 1, best_col, best_score)
  ELSE LET st == column_numeric_stats(Column(df, j))
       IN IF RLt(st.prop_numeric, Rat(3, 10))
          THEN QtyLoop(df, exclude_cols, j + 1, best_col, best_score)
          ELSE IF RLt(best_score, QtyScore(st))
          THEN QtyLoop(df, exclude_cols, j + 1, j, QtyScore(st))
          ELSE QtyLoop(df, exclude_cols, j + 1, best_col, best_score)

choose_qty_column(df, exclude_cols) == QtyLoop(df, exclude_cols, 1, 0, Rat(-1, 1))

(***************************************************************************)
(* app.py: the raw table's cleanup.                                        *)
(***************************************************************************)
\* raw.replace("", pd.NA)
ReplaceEmpty(df) ==
  [df EXCEPT !.rows = [i \in 1..NRows(df) |->
     [j \in 1..NCols(df) |-> IF df.rows[i][j] = Str(<<>>) THEN PdNA ELSE df.rows[i][j]]]]

\* raw.loc[:, raw.notna().any(axis=0)]
DropEmptyColumns(df) ==
  LET keep == {j \in 1..NCols(df) : \E i \in 1..NRows(df) : ~df.rows[i][j].na}
  IN [cols |-> SubByIndex(df.cols, keep),
      rows |-> [i \in 1..NRows(df) |-> SubByIndex(df.rows[i], keep)]]

\* raw[~(raw.isna().all(axis=1))].reset_index(drop=True)
DropEmptyRows(df) ==
  LET keep == {i \in 1..NRows(df) : \E j \in 1..NCols(df) : ~df.rows[i][j].na}
  IN [df EXCEPT !.rows = SubByIndex(df.rows, keep)]

CleanRaw(df) == DropEmptyRows(DropEmptyColumns(ReplaceEmpty(df)))

(***************************************************************************)
(* app.py: the working table.                                              *)
(***************************************************************************)
multiplier(percent) == RDiv(RSub(Rat(100, 1), percent), Rat(100, 1))

\* Qty_Num of one cell
QtyNum(x) ==
  IF IsNaN(to_float_safe(x)) THEN NaN ELSE Rat(Trunc(to_float_safe(x)), 1)

\* the ratios p / q of the rows where both are numbers and q is not 0
Ratios(prices, qtys) ==
  LET ok == {i \in 1..Len(prices) :
               IsNum(prices[i]) /\ IsNum(qtys[i]) /\ qtys[i] # Zero}
      all == [i \in 1..Len(prices) |->
                IF i \in ok THEN RDiv(prices[i], qtys[i]) ELSE NaN]
  IN SubByIndex(all, ok)

\* std_ratio / (median_ratio + 1e-9) < 0.6.  With a negative median the
\* quotient is not positive; otherwise the test is std <= 0.6 * median, the
\* 1e-9 deciding the case of equality.
LowRelativeStd(ratios) ==
  LET median_ratio == Median(ratios)
      std2 == Variance(ratios)
  IN \/ RLt(median_ratio, Zero)
     \/ RLe(std2, RMul(Rat(36, 100), RMul(median_ratio, median_ratio)))

UseDivision(prices, qtys) ==
  /\ \E i \in 1..Len(qtys) : IsNum(qtys[i])
  /\ Len(Ratios(prices, qtys)) >= 1
  /\ LowRelativeStd(Ratios(prices, qtys))

compute_unit(p, q, use_division) ==
  IF IsNaN(p) THEN NaN
  ELSE IF use_division /\ ~IsNaN(q) /\ q # Zero THEN RDiv(p, q)
  ELSE p

\* round(float(x), 2) if not pd.isna(x) else 0.0
UnitPriceSet(x) == IF IsNaN(x) THEN {Zero} ELSE Round2Set(x)

\* the rows one raw row can become, before empty items are removed
WorkRowSet(df, i, icol, pcol, qcol, use_division, percent) ==
  LET name == strip(astype_str(df.rows[i][icol]))
      price_raw == df.rows[i][pcol]
      qty_raw == IF Truthy(df, qcol) THEN df.rows[i][qcol] ELSE PdNA
      price_num == to_float_safe(price_raw)
      qty_num == QtyNum(qty_raw)
      unit_raw == compute_unit(price_num, qty_num, use_division)
  IN UNION {
       {[item |-> name, price_raw |-> price_raw, price_num |-> price_num,
         qty_num |-> qty_num, unit_price |-> u, effective |-> e] :
          e \in Round2Set(RMul(u, multiplier(percent)))} :
       u \in UnitPriceSet(unit_raw)}

\* work[work["Item Name"].str.strip() != ""]
RemoveEmptyItems(rows) == SelectSeq(rows, LAMBDA r : strip(r.item) # <<>>)

\* every working table lines 172-216 can build
WorkSet(df, icol, pcol, qcol, percent) ==
  LET prices == [i \in 1..NRows(df) |-> to_float_safe(df.rows[i][pcol])]
      qtys == [i \in 1..NRows(df) |->
                 QtyNum(IF Truthy(df, qcol) THEN df.rows[i][qcol] ELSE PdNA)]
      use_division == UseDivision(prices, qtys)
  IN {RemoveEmptyItems(w) :
        w \in SeqProduct([i \in 1..NRows(df) |->
               WorkRowSet(df, i, icol, pcol, qcol, use_division, percent)])}

\* work["Unit Price"].sum() == 0
AllZero(w) == RSum([i \in 1..Len(w) |-> w[i].unit_price]) = Zero

(***************************************************************************)
(* app.py, one run of the script on an uploaded invoice.                   *)
(***************************************************************************)
\* the discount widget: min 0, max 100
Discounts == {Rat(0, 1), Rat(10, 1), Rat(13, 1), Rat(100, 1)}

T_ab == <<"a", "b">>
T_10 == <<"1", "0">>

\* the data rows pdfplumber may extract: item, price and quantity cells
AppRowPool ==
  { <<Str(T_ab), Str(T_10), Str(<<"2">>)>>,
    <<Str(<<"c", " ", "d">>), Str(<<"5">>), Str(<<"2">>)>>,
    <<Str(<<>>), Str(<<"2", ".", "5">>), Str(<<>>)>>,
    <<Str(<<" ">>), Str(<<"-", "5">>), Str(<<"1">>)>>,
    <<None, Str(<<"-">>), None>>,
    <<Str(<<"M", "8">>), Str(<<"1", "-", "2">>), Str(<<"0">>)>>,
    <<Str(<<>>), Str(<<>>), None>>,
    <<Str(<<"x">>), Str(<<"0">>), Str(<<"x">>)>>,
    <<Str(T_10), Str(<<"-", "5">>), Str(<<>>)>>,
    <<Str(T_ab), Str(<<".">>), Str(<<"3">>)>> }

AppHeaders ==
  { << <<"I", "t", "e", "m">>, <<"P", "r", "i", "c", "e">>, <<"Q", "t", "y">> >>,
    << <<>>, <<"P", "r", "i", "c", "e">>, <<"Q", "t", "y">> >> }

RECURSIVE SeqsUpTo(_, _)
SeqsUpTo(S, k) ==
  IF k = 0 THEN {<<>>}
  ELSE LET shorter == SeqsUpTo(S, k - 1)
       IN shorter \cup {Append(t, r) : t \in shorter, r \in S}

\* what page.extract_tables() yields: a header row and the data rows
PdfTables ==
  {[cols |-> h, rows |-> rs] : h \in AppHeaders, rs \in SeqsUpTo(AppRowPool, MaxRowsApp)}

\* the three select boxes: 0 is "--Auto--", -1 is "None", j is column j;
\* at most one of them is moved from "--Auto--"
Selections(df) ==
  {[item |-> 0, price |-> 0, qty |-> 0]}
    \cup {[item |-> j, price |-> 0, qty |-> 0] : j \in 1..NCols(df)}
    \cup {[item |-> 0, price |-> j, qty |-> 0] : j \in 1..NCols(df)}
    \cup {[item |-> 0, price |-> 0, qty |-> j] : j \in {-1} \cup 1..NCols(df)}

AppInit ==
  /\ apc = "start"
  /\ discount_percent \in Discounts
  /\ df_list = <<>>
  /\ raw = EmptyFrame
  /\ item_col = 0
  /\ price_col = 0
  /\ qty_col = 0
  /\ work = <<>>
  /\ warned = FALSE
  /\ CleanerIdle
  /\ ReadyIdle

\* lines 104-119: a table with no data row is skipped
ReadPdf ==
  /\ apc = "start"
  /\ \E t \in PdfTables :
       df_list' = IF NRows(t) = 0 THEN <<>> ELSE <<t>>
  /\ apc' = "read"
  /\ UNCHANGED <<raw, item_col, price_col, qty_col, work, warned>>
  /\ UNCHANGED <<discount_percent, cleanerVars, readyVars>>

\* pdfplumber.open raises: the except clause of line 247
ReadPdfFails ==
  /\ apc = "start"
  /\ apc' = "error"
  /\ UNCHANGED <<df_list, raw, item_col, price_col, qty_col, work, warned>>
  /\ UNCHANGED <<discount_percent, cleanerVars, readyVars>>

\* lines 121-122
NoTables ==
  /\ apc = "read"
  /\ df_list = <<>>
  /\ apc' = "no_tables"
  /\ UNCHANGED <<df_list, raw, item_col, price_col, qty_col, work, warned>>
  /\ UNCHANGED <<discount_percent, cleanerVars, readyVars>>

\* lines 124-134
Cleanup ==
  /\ apc = "read"
  /\ df_list # <<>>
  /\ raw' = CleanRaw(df_list[1])
  /\ apc' = "cleaned"
  /\ UNCHANGED <<df_list, item_col, price_col, qty_col, work, warned>>
  /\ UNCHANGED <<discount_percent, cleanerVars, readyVars>>

\* lines 136-139
AutoDetect ==
  /\ apc = "cleaned"
  /\ item_col' = choose_item_column(raw).col
  /\ price_col' = choose_price_column(raw).col
  /\ qty_col' = choose_qty_column(raw, {item_col', price_col'}).col
  /\ apc' = "detected"
  /\ UNCHANGED <<df_list, raw, work, warned>>
  /\ UNCHANGED <<discount_percent, cleanerVars, readyVars>>

\* lines 154-166
ApplySelection ==
  /\ apc = "detected"
  /\ \E sel \in Selections(raw) :
       /\ item_col' = IF sel.item # 0 THEN sel.item ELSE item_col
       /\ price_col' = IF sel.price # 0 THEN sel.price ELSE price_col
       /\ qty_col' = IF sel.qty > 0 THEN sel.qty
                     ELSE IF sel.qty = -1 THEN 0 ELSE qty_col
  /\ apc' = "selected"
  /\ UNCHANGED <<df_list, raw, work, warned>>
  /\ UNCHANGED <<discount_percent, cleanerVars, readyVars>>

\* lines 168-169
ColumnsMissing ==
  /\ apc = "selected"
  /\ ~Truthy(raw, item_col) \/ ~Truthy(raw, price_col)
  /\ apc' = "no_columns"
  /\ UNCHANGED <<df_list, raw, item_col, price_col, qty_col, work, warned>>
  /\ UNCHANGED <<discount_percent, cleanerVars, readyVars>>

\* lines 170-228
Compute ==
  /\ apc = "selected"
  /\ Truthy(raw, item_col) /\ Truthy(raw, price_col)
  /\ \E w \in WorkSet(raw, item_col, price_col, qty_col, discount_percent) :
       /\ work' = w
       /\ warned' = AllZero(w)
  /\ apc' = "done"
  /\ UNCHANGED <<df_list, raw, item_col, price_col, qty_col>>
  /\ UNCHANGED <<discount_percent, cleanerVars, readyVars>>

AppNext ==
  \/ ReadPdf \/ ReadPdfFails \/ NoTables \/ Cleanup
  \/ AutoDetect \/ ApplySelection \/ ColumnsMissing \/ Compute

SpecApp == AppInit /\ [][AppNext]_vars

(***************************************************************************)
(* invoice_analyzer_ready.py: text helpers.                                *)
(***************************************************************************)
UpperLetters == <<"A", "B", "C", "D", "E", "F", "G", "H", "I", "J", "K", "L", "M", "N", "O", "P", "Q", "R", "S", "T", "U", "V", "W", "X", "Y", "Z">>
LowerLetters == <<"a", "b", "c", "d", "e", "f", "g", "h", "i", "j", "k", "l", "m", "n", "o", "p", "q", "r", "s", "t", "u", "v", "w", "x", "y", "z">>
Letters == {UpperLetters[i] : i \in 1..26} \cup {LowerLetters[i] : i \in 1..26}

\* str.lower()
lower(t) ==
  [i \in 1..Len(t) |->
     IF \E k \in 1..26 : UpperLetters[k] = t[i]
     THEN LowerLetters[CHOOSE k \in 1..26 : UpperLetters[k] = t[i]]
     ELSE t[i]]

\* pat in t
Contains(t, pat) ==
  \E i \in 0..(Len(t) - Len(pat)) : SubSeq(t, i + 1, i + Len(pat)) = pat

\* any(ch.isalpha() for ch in t)
HasAlpha(t) == \E i \in 1..Len(t) : t[i] \in Letters

\* any(ch.isdigit() for ch in t)
HasDigit(t) == \E i \in 1..Len(t) : t[i] \in DigitChars

\* t.replace(pat, ""), pat not empty
RECURSIVE Remove(_, _)
Remove(t, pat) ==
  IF Len(t) < Len(pat) THEN t
  ELSE IF SubSeq(t, 1, Len(pat)) = pat
  THEN Remove(SubSeq(t, Len(pat) + 1, Len(t)), pat)
  ELSE <<t[1]>> \o Remove(Tail(t), pat)

\* " ".join(ts)
RECURSIVE Join(_)
Join(ts) ==
  IF ts = <<>> THEN <<>>
  ELSE IF Len(ts) = 1 THEN ts[1]
  ELSE ts[1] \o <<" ">> \o Join(Tail(ts))

\* pd.to_numeric(..., errors='coerce') on one text, after the commas are
\* removed: surrounding blanks are skipped, what is no number becomes NaN
to_numeric(t) ==
  LET u == strip(Remove(t, <<",">>))
  IN IF IsFloatLiteral(u) THEN PyFloat(u) ELSE NaN

\* ... .fillna(0)
fillna0(v) == IF IsNaN(v) THEN Zero ELSE v

\* the numbers of a column that are not NaN
NotNa(vs) == SelectSeq(vs, IsNum)

\* Series.max() / Series.min() of a sequence with at least one number
SeriesMax(vs) == KthSmallest(NotNa(vs), Len(NotNa(vs)))
SeriesMin(vs) == KthSmallest(NotNa(vs), 1)

(***************************************************************************)
(* invoice_analyzer_ready.py: try_tabula_pdf.                              *)
(* What tabula does is [kind, frames]: kind "missing" when the module is   *)
(* not installed, "raises" when read_pdf raises, "frames" when it returns  *)
(* the list frames.                                                        *)
(***************************************************************************)
NonEmptyFrames(frames) == SelectSeq(frames, LAMBDA t : NRows(t) > 0)

try_tabula_unfiltered(o) ==
  IF o.kind = "missing" THEN <<>>
  ELSE IF o.kind = "raises" THEN <<>>
  ELSE o.frames

try_tabula_pdf(o) ==
  IF o.kind = "missing" THEN <<>>
  ELSE IF o.kind = "raises" THEN <<>>
  ELSE NonEmptyFrames(o.frames)

\* sorted(tables, key=lambda x: x.shape[0], reverse=True)[0]: the first of
\* the tables with the most rows
Largest(ts) ==
  LET k == CHOOSE i \in 1..Len(ts) :
             /\ \A j \in 1..Len(ts) : NRows(ts[j]) <= NRows(ts[i])
             /\ \A j \in 1..(i - 1) : NRows(ts[j]) < NRows(ts[i])
  IN ts[k]

(***************************************************************************)
(* invoice_analyzer_ready.py: fallback_pdfplumber_parse.                   *)
(* What pdfplumber does is [kind, lines]: kind "missing", "raises" or      *)
(* "text" with the lines of the pages, each line split into its tokens.    *)
(***************************************************************************)
\* the positions of the tokens holding a digit
NumericIndices(tokens) == {i \in 1..Len(tokens) : HasDigit(tokens[i])}

Min(S) == CHOOSE a \in S : \A b \in S : a <= b
Max(S) == CHOOSE a \in S : \A b \in S : b <= a

\* float(s.replace(',', '').replace('Rs.', '').replace('PKR', ''))
clean_num(t) == PyFloat(Remove(Remove(Remove(t, <<",">>), <<"R", "s", ".">>), <<"P", "K", "R">>))

\* one kept line as a row, or a raise that skips the line
ParseLine(tokens) ==
  LET idx == NumericIndices(tokens)
      first_num_idx == Min(idx)
      price == clean_num(tokens[first_num_idx])
      paid_token == IF Cardinality(idx) >= 2
                    THEN tokens[Max(idx \ {Max(idx)})]
                    ELSE tokens[first_num_idx]
      paid == clean_num(paid_token)
      free == clean_num(tokens[Max(idx)])
  IN IF price.kind = "raise" \/ paid.kind = "raise" \/ free.kind = "raise"
     THEN [ok |-> FALSE]
     ELSE [ok |-> TRUE,
           row |-> [item |-> Join(SubSeq(tokens, 1, first_num_idx - 1)),
                    price |-> price,
                    paid |-> Rat(Trunc(paid), 1),
                    free |-> Rat(Trunc(free), 1)]]

RECURSIVE ParseLines(_)
ParseLines(lines) ==
  IF lines = <<>> THEN <<>>
  ELSE LET rest == ParseLines(Tail(lines))
           tokens == lines[1]
       IN IF Cardinality(NumericIndices(tokens)) >= 2 /\ ParseLine(tokens).ok
          THEN <<ParseLine(tokens).row>> \o rest
          ELSE rest

fallback_pdfplumber_parse(o) ==
  IF o.kind = "missing" THEN <<>>
  ELSE IF o.kind = "raises" THEN <<>>
  ELSE ParseLines(o.lines)

(***************************************************************************)
(* invoice_analyzer_ready.py: detect_and_prepare_df.                       *)
(* col_map is the dict as the sequence of its entries [col, role], in      *)
(* insertion order.                                                        *)
(***************************************************************************)
ItemName == <<"I", "t", "e", "m", " ", "N", "a", "m", "e">>
OriginalPrice == <<"O", "r", "i", "g", "i", "n", "a", "l", " ", "P", "r", "i", "c", "e">>
PaidQty == <<"P", "a", "i", "d", " ", "Q", "t", "y">>
FreeQty == <<"F", "r", "e", "e", " ", "Q", "t", "y">>
NoRole == <<>>

\* lines 129-140
KeywordRole(c) ==
  LET lc == lower(c)
  IN IF Contains(lc, <<"i", "t", "e", "m">>) \/ Contains(lc, <<"n", "a", "m", "e">>) \/ Contains(lc, <<"m", "a", "k", "e">>)
     THEN ItemName
     ELSE IF Contains(lc, <<"p", "r", "i", "c", "e">>) \/ Contains(lc, <<"u", "n", "i", "t">>) \/ Contains(lc, <<"r", "a", "t", "e">>)
     THEN OriginalPrice
     ELSE IF Contains(lc, <<"f", "r", "e", "e">>) THEN FreeQty
     ELSE IF Contains(lc, <<"q", "t", "y">>) /\ ~Contains(lc, <<"f", "r", "e", "e">>) THEN PaidQty
     ELSE NoRole

\* col_map[c] = role
SetRole(cm, c, role) ==
  IF \E k \in 1..Len(cm) : cm[k].col = c
  THEN [k \in 1..Len(cm) |-> IF cm[k].col = c THEN [col |-> c, role |-> role] ELSE cm[k]]
  ELSE Append(cm, [col |-> c, role |-> role])

\* the loop of lines 128-140 from column j on
RECURSIVE KeywordLoop(_, _, _)
KeywordLoop(df, j, cm) ==
  IF j > NCols(df) THEN cm
  ELSE IF KeywordRole(df.cols[j]) # NoRole
  THEN KeywordLoop(df, j + 1, SetRole(cm, j, KeywordRole(df.cols[j])))
  ELSE KeywordLoop(df, j + 1, cm)

\* name in col_map: the dict is searched by its keys, the column names
InColMap(df, cm, name) == \E k \in 1..Len(cm) : df.cols[cm[k].col] = name

\* for c in cols: ... break: the first of the columns S, 0 when S is empty
FirstColumn(S) ==
  IF S # {} THEN CHOOSE j \in S : \A k \in S : j <= k ELSE 0

Least(a, b) == IF a <= b THEN a ELSE b

\* lines 148-150
LooksLikeItem(df, j) ==
  LET sample == SubSeq(Column(df, j), 1, Least(10, NRows(df)))
      non_num_count == Cardinality({i \in 1..Len(sample) : HasAlpha(astype_str(sample[i]))})
  IN non_num_count >= 5

NumericColumn(df, j) == [i \in 1..NRows(df) |-> to_numeric(astype_str(df.rows[i][j]))]

\* lines 157-158
LooksLikePrice(df, j) ==
  LET s == NumericColumn(df, j)
  IN /\ Len(NotNa(s)) >= 3
     /\ RLt(SeriesMax(s), Rat(10000000, 1))
     /\ RLe(Zero, SeriesMin(s))

\* float.is_integer
IsInteger(v) == v.d = 1

\* lines 167-169
LooksLikeQty(df, j) ==
  LET s == NumericColumn(df, j)
  IN /\ Len(NotNa(s)) >= 3
     /\ Cardinality({i \in 1..Len(s) : IsNum(s[i]) /\ IsInteger(s[i])}) >= 1
     /\ RLt(SeriesMax(s), Rat(100000, 1))

\* a guess is made when the test of the role says it is missing
GuessRole(df, cm, missing, j, role) ==
  IF missing /\ j # 0 THEN SetRole(cm, j, role) ELSE cm

ItemMissing(df, cm) == ~InColMap(df, cm, ItemName)
PriceMissing(df, cm) == ~InColMap(df, cm, OriginalPrice)
QtyMissing(df, cm) == ~InColMap(df, cm, PaidQty)

\* lines 126-173
ColMap(df) ==
  LET cm0 == KeywordLoop(df, 1, <<>>)
      cm1 == GuessRole(df, cm0, ItemMissing(df, cm0),
                       FirstColumn({j \in 1..NCols(df) : LooksLikeItem(df, j)}), ItemName)
      cm2 == GuessRole(df, cm1, PriceMissing(df, cm1),
                       FirstColumn({j \in 1..NCols(df) : LooksLikePrice(df, j)}), OriginalPrice)
      cm3 == GuessRole(df, cm2, QtyMissing(df, cm2),
                       FirstColumn({j \in 1..NCols(df) : LooksLikeQty(df, j)}), PaidQty)
  IN cm3

\* the column normalized[role] is copied from: the last entry with the role
\* (a later entry overwrites an earlier one), 0 when no entry has it
SourceColumn(cm, role) ==
  IF \E k \in 1..Len(cm) : cm[k].role = role
  THEN cm[CHOOSE k \in 1..Len(cm) :
            cm[k].role = role /\ \A m \in (k + 1)..Len(cm) : cm[m].role # role].col
  ELSE 0

\* lines 183-187 for one cell
NumericCell(df, i, j) ==
  IF j = 0 THEN Zero ELSE fillna0(to_numeric(astype_str(df.rows[i][j])))

UnknownItem == <<"U", "n", "k", "n", "o", "w", "n", " ", "I", "t", "e", "m">>

ItemCellEmptyDefault(df, i, j) ==
  IF j = 0 THEN <<>> ELSE strip(astype_str(df.rows[i][j]))

\* lines 189-192 for one cell
ItemCell(df, i, j) ==
  IF j = 0 THEN UnknownItem ELSE strip(astype_str(df.rows[i][j]))

\* the rows of normalized: the index comes from the first column copied, so
\* an empty col_map leaves no row
NormalizedRowCount(df, cm) == IF cm = <<>> THEN 0 ELSE NRows(df)

Normalized(df, cm) ==
  [i \in 1..NormalizedRowCount(df, cm) |->
     [item |-> ItemCell(df, i, SourceColumn(cm, ItemName)),
      price |-> NumericCell(df, i, SourceColumn(cm, OriginalPrice)),
      paid |-> NumericCell(df, i, SourceColumn(cm, PaidQty)),
      free |-> NumericCell(df, i, SourceColumn(cm, FreeQty))]]

detect_and_prepare_df(df) ==
  IF NRows(df) * NCols(df) = 0 THEN <<>> ELSE Normalized(df, ColMap(df))

(***************************************************************************)
(* invoice_analyzer_ready.py: the calculation block.                       *)
(***************************************************************************)
\* a / b as numpy divides: by zero it gives inf, and nan for 0 / 0
Inf == [kind |-> "inf", n |-> 0, d |-> 1]
Divide(a, b) ==
  IF b # Zero THEN RDiv(a, b) ELSE IF a = Zero THEN NaN ELSE Inf

\* round(v, 2) of what a division gave
RoundQuotient(v) == IF IsNum(v) THEN Round2Set(v) ELSE {v}

DiscountedUnitPriceExact(price, percent) == {RMul(price, multiplier(percent))}

\* (price * discount_multiplier).round(2)
DiscountedUnitPriceSet(price, percent) == Round2Set(RMul(price, multiplier(percent)))

TotalQtyNoCast(paid, free) == RAdd(paid, free)

\* (paid + free).astype(int)
TotalQty(paid, free) == Rat(Trunc(RAdd(paid, free)), 1)

eff_rate_unguarded(paid, dup, total) ==
  RoundQuotient(Divide(RMul(paid, dup), total))

eff_rate_unit_price(paid, dup, total) ==
  IF total = Zero THEN {dup}
  ELSE RoundQuotient(Divide(RMul(paid, dup), total))

\* eff_rate(row)
eff_rate(paid, dup, total) ==
  IF total = Zero THEN {Zero}
  ELSE RoundQuotient(Divide(RMul(paid, dup), total))

\* the rows one row of df_final can become
EnrichedRowSet(r, percent) ==
  UNION {
    {[item |-> r.item, price |-> r.price, paid |-> r.paid, free |-> r.free,
      dup |-> u, total |-> TotalQty(r.paid, r.free), eff |-> e] :
       e \in eff_rate(r.paid, u, TotalQty(r.paid, r.free))} :
    u \in DiscountedUnitPriceSet(r.price, percent)}

EnrichedSet(rows, percent) ==
  SeqProduct([i \in 1..Len(rows) |-> EnrichedRowSet(rows[i], percent)])

(***************************************************************************)
(* invoice_analyzer_ready.py, one run of the script on an uploaded PDF.    *)
(***************************************************************************)
\* the rows of the short tables: item, price, paid and free cells
ShortRowPool ==
  { <<Str(<<"B", "o", "l", "t", " ", "M", "8">>), Str(<<"1", "0", ".", "0", "0">>), Str(<<"5">>), Str(<<"1">>)>>,
    <<Str(<<"N", "u", "t">>), Str(<<"2", ".", "5", "0">>), Str(<<"0">>), Str(<<"0">>)>>,
    <<Str(<<"P", "i", "n">>), Str(<<"4">>), Str(<<"1", ".", "5">>), Str(<<"1">>)>>,
    <<Str(<<"C", "a", "p">>), Str(<<"4", ".", "1", "2", "8">>), Str(<<"0", ".", "5">>), Str(<<"0">>)>>,
    <<Str(<<"R", "o", "d">>), Str(<<"8">>), Str(<<"-", "1">>), Str(<<"1">>)>>,
    <<Str(<<" ">>), Str(<<"1", ",", "2", "0", "0">>), NaNCell, Str(<<"x">>)>>,
    <<NaNCell, Str(<<>>), Str(<<"3">>), Str(<<"-", "1">>)>>,
    <<Str(<<"J", "i", "g">>), Str(<<"7">>), Str(<<"1">>), Str(<<"-", "3">>)>> }

\* the rows of the long tables
LongRowPool ==
  { <<Str(<<"B", "o", "l", "t", " ", "M", "8">>), Str(<<"1", "0", ".", "0", "0">>), Str(<<"5">>), Str(<<"1">>)>>,
    <<Str(<<"1", "2">>), Str(<<"2", ".", "5", "0">>), Str(<<"0", ".", "5">>), Str(<<"0">>)>> }

\* the headers tabula may read; a table has as many columns as headers
ReadyHeaders ==
  { << <<"D", "e", "s", "c", "r", "i", "p", "t", "i", "o", "n">>, <<"R", "a", "t", "e">>, <<"Q", "t", "y">>, <<"F", "r", "e", "e">> >>,
    << <<"I", "t", "e", "m", " ", "N", "a", "m", "e">>, <<"O", "r", "i", "g", "i", "n", "a", "l", " ", "P", "r", "i", "c", "e">>, <<"P", "a", "i", "d", " ", "Q", "t", "y">>, <<"F", "r", "e", "e", " ", "Q", "t", "y">> >>,
    << <<"P", "r", "o", "d", "u", "c", "t">>, <<"C", "o", "s", "t">>, <<"C", "o", "u", "n", "t">>, <<"B", "o", "n", "u", "s">> >>,
    << <<"I", "t", "e", "m">>, <<"P", "r", "i", "c", "e">>, <<"Q", "t", "y">> >>,
    << <<"P", "r", "o", "d", "u", "c", "t">>, <<"R", "a", "t", "e">> >> }

RECURSIVE SeqsOfLen(_, _)
SeqsOfLen(S, k) ==
  IF k = 0 THEN {<<>>}
  ELSE {Append(t, r) : t \in SeqsOfLen(S, k - 1), r \in S}

\* the sequences over S of length lo to hi
SeqsBetween(S, lo, hi) == UNION {SeqsOfLen(S, k) : k \in lo..hi}

Frame(h, rs) ==
  [cols |-> h, rows |-> [i \in 1..Len(rs) |-> SubSeq(rs[i], 1, Len(h))]]

ShortFrames ==
  {Frame(h, rs) : h \in ReadyHeaders, rs \in SeqsBetween(ShortRowPool, 1, MaxShortRows)}

LongFrames ==
  {Frame(h, rs) : h \in ReadyHeaders,
                  rs \in SeqsBetween(LongRowPool, MaxShortRows + 1, MaxLongRows)}

\* a frame without rows
HeaderOnlyFrame == Frame(<< <<"S", "r">>, <<"A", "m", "o", "u", "n", "t">> >>, <<>>)

\* a frame tabula may return before the others
LeadingFrames ==
  { HeaderOnlyFrame,
    Frame(<< <<"I", "t", "e", "m">>, <<"P", "r", "i", "c", "e">> >>,
          << <<Str(<<"H", "o", "o", "k">>), Str(<<"3">>)>> >>) }

TabulaOutcomes ==
  {[kind |-> "missing", frames |-> <<>>], [kind |-> "raises", frames |-> <<>>],
   [kind |-> "frames", frames |-> <<>>],
   [kind |-> "frames", frames |-> <<HeaderOnlyFrame>>]}
    \cup {[kind |-> "frames", frames |-> <<t>>] : t \in ShortFrames \cup LongFrames}
    \cup {[kind |-> "frames", frames |-> <<l, t>>] :
            l \in LeadingFrames, t \in ShortFrames \cup LongFrames}

\* the lines of text pdfplumber may extract, split into tokens
LinePool ==
  { << <<"B", "o", "l", "t">>, <<"M", "8">>, <<"1", "0", ".", "0", "0">>, <<"5">>, <<"1">> >>,
    << <<"N", "u", "t">>, <<"1", "0", ".", "0", "0">>, <<"5">>, <<"1">> >>,
    << <<"W", "a", "s", "h", "e", "r">>, <<"R", "s", ".", "2", ".", "5", "0">>, <<"1", ".", "5">>, <<"0">> >>,
    << <<"T", "o", "t", "a", "l">>, <<"1", ",", "2", "3", "4", ".", "5", "0">>, <<"P", "K", "R">> >>,
    << <<"S", "c", "r", "e", "w">>, <<"3">>, <<"0">>, <<"0">> >>,
    << <<"5">>, <<"2">> >> }

PlumberOutcomes ==
  {[kind |-> "missing", lines |-> <<>>], [kind |-> "raises", lines |-> <<>>]}
    \cup {[kind |-> "text", lines |-> ls] : ls \in SeqsUpTo(LinePool, MaxLines)}

Init ==
  /\ pc = "start"
  /\ discount_percent \in Discounts
  /\ tabula_out = NoOutcome
  /\ tables = <<>>
  /\ plumber_out = NoText
  /\ attempts = <<>>
  /\ candidate = EmptyFrame
  /\ col_map = <<>>
  /\ source = "none"
  /\ df_final = <<>>
  /\ enriched = <<>>
  /\ CleanerIdle
  /\ AppIdle

\* line 218
TryTabula ==
  /\ pc = "start"
  /\ \E o \in TabulaOutcomes :
       /\ tabula_out' = o
       /\ tables' = try_tabula_pdf(o)
  /\ attempts' = Append(attempts, "tabula")
  /\ pc' = "tabula_done"
  /\ UNCHANGED <<plumber_out, candidate, col_map, source, df_final, enriched>>
  /\ UNCHANGED <<discount_percent, cleanerVars, appVars>>

\* lines 220-226
UseTabula ==
  /\ pc = "tabula_done"
  /\ tables # <<>>
  /\ candidate' = Largest(tables)
  /\ col_map' = IF NRows(candidate') * NCols(candidate') = 0 THEN <<>>
                ELSE ColMap(candidate')
  /\ df_final' = detect_and_prepare_df(candidate')
  /\ source' = "tabula"
  /\ pc' = "extracted"
  /\ UNCHANGED <<tabula_out, tables, plumber_out, attempts, enriched>>
  /\ UNCHANGED <<discount_percent, cleanerVars, appVars>>

\* lines 227-235
Fallback ==
  /\ pc = "tabula_done"
  /\ tables = <<>>
  /\ \E o \in PlumberOutcomes :
       LET df_fb == fallback_pdfplumber_parse(o)
       IN /\ plumber_out' = o
          /\ df_final' = df_fb
          /\ source' = IF df_fb # <<>> THEN "fallback" ELSE "none"
  /\ attempts' = Append(attempts, "pdfplumber")
  /\ pc' = "extracted"
  /\ UNCHANGED <<tabula_out, tables, candidate, col_map, enriched>>
  /\ UNCHANGED <<discount_percent, cleanerVars, appVars>>

\* lines 238-255
Calculate ==
  /\ pc = "extracted"
  /\ df_final # <<>>
  /\ enriched' \in EnrichedSet(df_final, discount_percent)
  /\ pc' = "done"
  /\ UNCHANGED <<tabula_out, tables, plumber_out, attempts, candidate, col_map, source,
                 df_final>>
  /\ UNCHANGED <<discount_percent, cleanerVars, appVars>>

\* lines 279-280
NoData ==
  /\ pc = "extracted"
  /\ df_final = <<>>
  /\ pc' = "no_data"
  /\ UNCHANGED <<tabula_out, tables, plumber_out, attempts, candidate, col_map, source,
                 df_final, enriched>>
  /\ UNCHANGED <<discount_percent, cleanerVars, appVars>>

Next == TryTabula \/ UseTabula \/ Fallback \/ Calculate \/ NoData

Spec == Init /\ [][Next]_vars

(***************************************************************************)
(* Either script run on an uploaded invoice.                               *)
(***************************************************************************)
SpecAll == (Init \/ AppInit) /\ [][Next \/ AppNext]_vars

(***************************************************************************)
(* C3.  Every raw string made of a currency symbol and an amount with      *)
(* thousands separators is converted to the value of the amount.           *)
(***************************************************************************)
C3_CurrencyStringsYieldAmount ==
  \A p \in CurrencySymbols, a \in Amounts :
    (cpc = "done" /\ cx = Str(p \o Render(a))) => cres = AmountValue(a)

(***************************************************************************)
(* C4.  After column classification no column holds two roles: the columns *)
(* chosen for the item name, the price and the paid quantity are pairwise  *)
(* distinct whenever they are assigned.                                    *)
(***************************************************************************)
C4_RolesUseDistinctColumns ==
  apc = "detected" =>
    /\ (item_col # 0 /\ price_col # 0) => item_col # price_col
    /\ qty_col # 0 => qty_col \notin {item_col, price_col}

(***************************************************************************)
(* C5.  The output holds no row whose trimmed item name is empty: a row    *)
(* whose item cell is missing, empty or whitespace-only is dropped, and    *)
(* every other row is kept.                                                *)
(***************************************************************************)
BlankItem(x) == x.na \/ strip(x.s) = <<>>

C5_BlankItemsDroppedOthersKept ==
  apc = "done" =>
    /\ \A i \in 1..Len(work) : strip(work[i].item) # <<>>
    /\ Len(work) =
         Cardinality({i \in 1..NRows(raw) : ~BlankItem(raw.rows[i][item_col])})

(***************************************************************************)
(* C9.  The numeric cleaner never raises; a value whose cleaned text is    *)
(* empty or is no floating-point literal becomes NaN, and the row's unit   *)
(* price is then 0.                                                        *)
(***************************************************************************)
Unparsable(x) ==
  clean_number_raw(x) = <<>> \/ ~IsFloatLiteral(clean_number_raw(x))

C9_UnparsableIsNaNThenZero ==
  apc = "done" =>
    \A i \in 1..Len(work) :
      /\ work[i].price_num.kind \in {"num", "nan"}
      /\ work[i].unit_price.kind = "num"
      /\ Unparsable(work[i].price_raw) =>
           (IsNaN(work[i].price_num) /\ work[i].unit_price = Zero)
      /\ ~Unparsable(work[i].price_raw) => IsNum(work[i].price_num)

C9_Witness ==
  /\ apc = "done"
  /\ \E i \in 1..Len(work) :
       work[i].price_raw = Str(<<"1", "-", "2">>) /\ work[i].unit_price = Zero
  /\ \E i \in 1..Len(work) :
       work[i].price_raw = Str(<<"-">>) /\ work[i].unit_price = Zero


(***************************************************************************)
(* C1.  As claimed: a row whose total quantity paid + free is 0 has the    *)
(* discounted unit price as its effective rate, at every discount.         *)
(***************************************************************************)
C1_ZeroTotalGivesDiscountedPrice ==
  pc = "done" =>
    \A i \in 1..Len(enriched) :
      RAdd(enriched[i].paid, enriched[i].free) = Zero =>
        enriched[i].eff = enriched[i].dup

(***************************************************************************)
(* C1, amended.  A row whose total quantity, paid + free cut to an         *)
(* integer, is 0 has the effective rate 0, at every discount.              *)
(***************************************************************************)
C1_ZeroTotalGivesZero ==
  pc = "done" =>
    \A i \in 1..Len(enriched) :
      Trunc(RAdd(enriched[i].paid, enriched[i].free)) = 0 =>
        enriched[i].eff = Zero

C1_Witness ==
  /\ pc = "done"
  /\ \E i \in 1..Len(enriched) :
       /\ enriched[i].paid = Zero
       /\ enriched[i].free = Zero
       /\ enriched[i].dup # Zero
       /\ enriched[i].eff = Zero

(***************************************************************************)
(* C2.  The extractors are tried in the order tabula, pdfplumber, each at  *)
(* most once; pdfplumber is tried exactly when tabula returned no table    *)
(* with rows; the table that is calculated on comes from the first         *)
(* extractor that gave one.                                                *)
(***************************************************************************)
TabulaGaveRows ==
  /\ tabula_out.kind = "frames"
  /\ \E k \in 1..Len(tabula_out.frames) : NRows(tabula_out.frames[k]) > 0

Tried(name) == \E k \in 1..Len(attempts) : attempts[k] = name

C2_ExtractionOrder ==
  /\ attempts \in {<<>>, <<"tabula">>, <<"tabula", "pdfplumber">>}
  /\ pc # "start" => Tried("tabula")
  /\ pc \in {"extracted", "done", "no_data"} =>
       /\ Tried("pdfplumber") <=> ~TabulaGaveRows
       /\ TabulaGaveRows =>
            /\ source = "tabula"
            /\ \E k \in 1..Len(tabula_out.frames) :
                 /\ candidate = tabula_out.frames[k]
                 /\ NRows(candidate) > 0
       /\ ~TabulaGaveRows =>
            source = IF df_final # <<>> THEN "fallback" ELSE "none"
  \* the table handed to the calculation
  /\ pc = "extracted" =>
       df_final = IF TabulaGaveRows THEN detect_and_prepare_df(candidate)
                  ELSE fallback_pdfplumber_parse(plumber_out)
  /\ pc = "done" =>
       /\ Len(enriched) = Len(df_final)
       /\ \A i \in 1..Len(enriched) :
            /\ enriched[i].item = df_final[i].item
            /\ enriched[i].price = df_final[i].price
            /\ enriched[i].paid = df_final[i].paid
            /\ enriched[i].free = df_final[i].free

\* tabula returns a frame without rows, pdfplumber three lines that parse
C2_Witness ==
  /\ pc = "done"
  /\ tabula_out.kind = "frames"
  /\ Len(tabula_out.frames) = 1
  /\ attempts = <<"tabula", "pdfplumber">>
  /\ source = "fallback"
  /\ Len(enriched) = 3

(***************************************************************************)
(* C6.  As claimed: with a role left without a column, normalisation still *)
(* gives one row per input row, with the empty text as item name when the  *)
(* item role has no column and 0 for each numeric role without one.        *)
(***************************************************************************)
Assigned(role) == \E k \in 1..Len(col_map) : col_map[k].role = role

Normalised == pc \in {"extracted", "done", "no_data"} /\ source = "tabula"

C6_DefaultsEmptyTextAndZero ==
  /\ Normalised =>
       /\ Len(df_final) = NRows(candidate)
       /\ \A i \in 1..Len(df_final) :
            /\ ~Assigned(ItemName) => df_final[i].item = <<>>
            /\ ~Assigned(OriginalPrice) => df_final[i].price = Zero
            /\ ~Assigned(PaidQty) => df_final[i].paid = Zero
            /\ ~Assigned(FreeQty) => df_final[i].free = Zero
  /\ apc = "no_columns" => Len(work) = NRows(raw)

(***************************************************************************)
(* C6, amended.  In invoice_analyzer_ready.py a role left without a column *)
(* is not fatal: when some role has a column there is one row per input    *)
(* row, with "Unknown Item" as item name when the item role has no column  *)
(* and 0 for each numeric role without one; when no role has a column      *)
(* there is no row.  In app.py an item or price role without a column      *)
(* stops the run with no output, a quantity role without one does not.     *)
(***************************************************************************)
C6_DefaultsUnknownItemAndZero ==
  /\ Normalised =>
       /\ Len(df_final) = IF col_map = <<>> THEN 0 ELSE NRows(candidate)
       /\ \A i \in 1..Len(df_final) :
            /\ ~Assigned(ItemName) => df_final[i].item = <<"U", "n", "k", "n", "o", "w", "n", " ", "I", "t", "e", "m">>
            /\ ~Assigned(OriginalPrice) => df_final[i].price = Zero
            /\ ~Assigned(PaidQty) => df_final[i].paid = Zero
            /\ ~Assigned(FreeQty) => df_final[i].free = Zero
  /\ apc = "no_columns" =>
       /\ work = <<>>
       /\ ~Truthy(raw, item_col) \/ ~Truthy(raw, price_col)
  /\ apc = "done" => Truthy(raw, item_col) /\ Truthy(raw, price_col)

C6_Witness ==
  /\ Normalised
  /\ ~Assigned(ItemName)
  /\ ~Assigned(FreeQty)
  /\ Assigned(OriginalPrice)
  /\ Len(df_final) = 2
  /\ NRows(candidate) = 2
  /\ df_final[1].item = <<"U", "n", "k", "n", "o", "w", "n", " ", "I", "t", "e", "m">>
  /\ df_final[1].free = Zero
  /\ df_final[1].price # Zero

(***************************************************************************)
(* C7.  As claimed: the total quantity is paid + free as a number, also    *)
(* when they are fractional, and for a positive total the effective rate   *)
(* is paid times the discounted unit price over that total, rounded to 2   *)
(* decimals.                                                               *)
(***************************************************************************)
C7_TotalIsPaidPlusFree ==
  pc = "done" =>
    \A i \in 1..Len(enriched) :
      LET e == enriched[i]
          total_qty == RAdd(e.paid, e.free)
      IN /\ e.total = total_qty
         /\ RLt(Zero, total_qty) =>
              e.eff \in Round2Set(RDiv(RMul(e.paid, e.dup), total_qty))

(***************************************************************************)
(* C7, amended.  The total quantity is paid + free cut to an integer       *)
(* (towards zero), so a fractional sum is altered; for a positive total    *)
(* the effective rate is paid times the discounted unit price over that    *)
(* integer total, rounded to 2 decimals.                                   *)
(***************************************************************************)
C7_TotalIsTruncatedSum ==
  pc = "done" =>
    \A i \in 1..Len(enriched) :
      LET e == enriched[i]
          total_qty == Rat(Trunc(RAdd(e.paid, e.free)), 1)
      IN /\ e.total = total_qty
         /\ RLt(Zero, total_qty) =>
              e.eff \in Round2Set(RDiv(RMul(e.paid, e.dup), total_qty))

C7_Witness ==
  /\ pc = "done"
  /\ \E i \in 1..Len(enriched) :
       /\ enriched[i].paid = Rat(3, 2)
       /\ enriched[i].free = Rat(1, 1)
       /\ enriched[i].total = Rat(2, 1)
       /\ enriched[i].dup = Rat(4, 1)
       /\ enriched[i].eff = Rat(3, 1)

(***************************************************************************)
(* C8.  The effective rate of every row is a finite number, whatever the   *)
(* quantities (zero, negative, fractional with an integer part of 0) and   *)
(* the discount: no division by zero happens.                              *)
(***************************************************************************)
C8_EffectiveRateFinite ==
  pc = "done" =>
    \A i \in 1..Len(enriched) :
      /\ IsNum(enriched[i].eff)
      /\ enriched[i].eff.d > 0

C8_Witness ==
  /\ pc = "done"
  /\ \E i \in 1..Len(enriched) :
       /\ enriched[i].paid = Rat(-1, 1)
       /\ enriched[i].free = Rat(1, 1)
       /\ IsNum(enriched[i].eff)
  /\ \E i \in 1..Len(enriched) :
       /\ enriched[i].paid = Rat(1, 2)
       /\ enriched[i].free = Zero
       /\ IsNum(enriched[i].eff)

(***************************************************************************)
(* C10.  A table with the headers Description, Rate, Qty, Free is          *)
(* normalised row by row to item = Description cell, price = Rate cell,    *)
(* paid = Qty cell, free = Free cell; the row "Bolt M8", "10.00", "5",     *)
(* "1" at a discount of 10% gives item "Bolt M8", price 10, paid 5,        *)
(* free 1, discounted unit price 9, total quantity 6, effective rate 7.5.  *)
(***************************************************************************)
DescriptionRateQtyFree == << <<"D", "e", "s", "c", "r", "i", "p", "t", "i", "o", "n">>, <<"R", "a", "t", "e">>, <<"Q", "t", "y">>, <<"F", "r", "e", "e">> >>

BoltRow == <<Str(<<"B", "o", "l", "t", " ", "M", "8">>), Str(<<"1", "0", ".", "0", "0">>), Str(<<"5">>), Str(<<"1">>)>>

C10_DescriptionRateQtyFree ==
  (Normalised /\ candidate.cols = DescriptionRateQtyFree) =>
    /\ Len(df_final) = NRows(candidate)
    /\ \A i \in 1..Len(df_final) :
         /\ df_final[i].item = strip(astype_str(candidate.rows[i][1]))
         /\ df_final[i].price = fillna0(to_numeric(astype_str(candidate.rows[i][2])))
         /\ df_final[i].paid = fillna0(to_numeric(astype_str(candidate.rows[i][3])))
         /\ df_final[i].free = fillna0(to_numeric(astype_str(candidate.rows[i][4])))
    /\ (pc = "done" /\ discount_percent = Rat(10, 1)) =>
         \A i \in 1..Len(enriched) :
           candidate.rows[i] = BoltRow =>
             enriched[i] = [item |-> <<"B", "o", "l", "t", " ", "M", "8">>, price |-> Rat(10, 1),
                            paid |-> Rat(5, 1), free |-> Rat(1, 1),
                            dup |-> Rat(9, 1), total |-> Rat(6, 1),
                            eff |-> Rat(15, 2)]

(***************************************************************************)
(* C11.  As claimed: at a discount of 0 the discounted unit price of every *)
(* output row equals the row's original price, also for a price with more  *)
(* than two decimals (in app.py: the effective unit price equals the unit  *)
(* price).                                                                 *)
(***************************************************************************)
C11_ZeroDiscountKeepsPrice ==
  /\ (pc = "done" /\ discount_percent = Zero) =>
       \A i \in 1..Len(enriched) : enriched[i].dup = enriched[i].price
  /\ (apc = "done" /\ discount_percent = Zero) =>
       \A i \in 1..Len(work) : work[i].effective = work[i].unit_price

(***************************************************************************)
(* C11, amended.  At a discount of 0 the discounted unit price of every    *)
(* output row is the row's original price rounded to 2 decimals: it equals *)
(* the original price when that price has at most two decimals, and        *)
(* differs from it by less than 0.01 otherwise.  In app.py the effective   *)
(* unit price equals the unit price, which is already rounded.             *)
(***************************************************************************)
TwoDecimals(v) == 100 % v.d = 0

C11_ZeroDiscountRoundsPrice ==
  /\ (pc = "done" /\ discount_percent = Zero) =>
       \A i \in 1..Len(enriched) :
         LET e == enriched[i]
         IN /\ e.dup \in Round2Set(e.price)
            /\ TwoDecimals(e.dup)
            /\ TwoDecimals(e.price) <=> e.dup = e.price
            /\ RLt(RSub(e.dup, e.price), Rat(1, 100))
            /\ RLt(RSub(e.price, e.dup), Rat(1, 100))
  /\ (apc = "done" /\ discount_percent = Zero) =>
       \A i \in 1..Len(work) : work[i].effective = work[i].unit_price

C11_Witness ==
  /\ pc = "done"
  /\ discount_percent = Zero
  /\ \E i \in 1..Len(enriched) :
       /\ enriched[i].price = Rat(4128, 1000)
       /\ enriched[i].dup = Rat(413, 100)

(***************************************************************************)
(* C12.  The all-zero warning is shown exactly when the unit price of      *)
(* every output row is 0; it is not shown when some output row has a       *)
(* non-zero unit price, positive or negative.                              *)
(***************************************************************************)
EveryPriceZero == \A i \in 1..Len(work) : work[i].unit_price = Zero

C12_WarningIffEveryPriceZero ==
  apc = "done" => (warned <=> EveryPriceZero)

(***************************************************************************)
(* C13.  choose_price_column returns, among the columns whose median       *)
(* parsed value is defined and > 0, the one with the highest numeric       *)
(* proportion, the earliest of them when several have it; it returns no    *)
(* column exactly when no column has a defined positive median.            *)
(***************************************************************************)
PositiveMedian(df, j) ==
  LET median == column_numeric_stats(Column(df, j)).median
  IN IsNum(median) /\ RLt(Zero, median)

Proportion(df, j) == column_numeric_stats(Column(df, j)).prop_numeric

PriceCandidates(df) == {j \in 1..NCols(df) : PositiveMedian(df, j)}

C13_PriceColumnIsEarliestBest ==
  apc = "detected" =>
    /\ price_col = 0 <=> PriceCandidates(raw) = {}
    /\ price_col # 0 =>
         /\ price_col \in PriceCandidates(raw)
         /\ \A k \in PriceCandidates(raw) :
              /\ RLe(Proportion(raw, k), Proportion(raw, price_col))
              /\ k < price_col =>
                   RLt(Proportion(raw, k), Proportion(raw, price_col))

\* two columns with a positive median tie on the highest proportion, a
\* third column has no positive median
C13_Witness ==
  /\ apc = "detected"
  /\ \E k \in PriceCandidates(raw) :
       /\ price_col < k
       /\ Proportion(raw, k) = Proportion(raw, price_col)
  /\ price_col \in PriceCandidates(raw)
  /\ PriceCandidates(raw) # 1..NCols(raw)

====
